---- MODULE Spec2Model ----
(***************************************************************************)
(* A model of voikko-rs, the Rust binding of libvoikko: the Voikko wrapper *)
(* (src/src/lib.rs) and the FFI layer under it (src/src/libvoikko.rs).     *)
(*                                                                         *)
(* A Rust string (&str, String) is a sequence of Unicode scalar values    *)
(* (code points); its bytes are its UTF-8 encoding (as_bytes).  A C string *)
(* handed over by the engine is a sequence of non-zero bytes, or NULL.     *)
(* The engine (libvoikko) is external: each of its answers is an input of  *)
(* the action that calls it.                                               *)
(***************************************************************************)
EXTENDS Integers, Sequences, FiniteSets, TLC

\* ------------------------------------------------------------------ bounds
MaxWordLen == 3
MaxMaskLen == 3
MaxTextLen == 2

\* ------------------------------------------------------------- strings
RECURSIVE Flatten(_)
Flatten(ss) == IF ss = <<>> THEN <<>> ELSE ss[1] \o Flatten(Tail(ss))

SeqsUpTo(S, n) == UNION {[1..k -> S] : k \in 0..n}

\* char::encode_utf8, as str::as_bytes lays a string out
encode_utf8(c) ==
    IF c < 128 THEN <<c>>
    ELSE IF c < 2048 THEN <<192 + (c \div 64), 128 + (c % 64)>>
    ELSE IF c < 65536 THEN
        <<224 + (c \div 4096), 128 + ((c \div 64) % 64), 128 + (c % 64)>>
    ELSE <<240 + (c \div 262144), 128 + ((c \div 4096) % 64),
           128 + ((c \div 64) % 64), 128 + (c % 64)>>

as_bytes(s) == Flatten([i \in 1..Len(s) |-> encode_utf8(s[i])])

\* width announced by a leading byte, 0 for a byte that cannot lead
utf8_char_width(b) ==
    IF b < 128 THEN 1
    ELSE IF b >= 194 /\ b <= 223 THEN 2
    ELSE IF b >= 224 /\ b <= 239 THEN 3
    ELSE IF b >= 240 /\ b <= 244 THEN 4
    ELSE 0

IsContinuation(b) == b >= 128 /\ b <= 191

\* std::str::from_utf8 (behind CStr::to_str): the decoded string, or an Utf8Error
RECURSIVE from_utf8(_)
from_utf8(b) ==
    IF b = <<>> THEN [ok |-> TRUE, chars |-> <<>>]
    ELSE LET w == utf8_char_width(b[1]) IN
        IF w = 0 \/ Len(b) < w \/ (\E i \in 2..w : ~IsContinuation(b[i]))
        THEN [ok |-> FALSE, chars |-> <<>>]
        ELSE LET c == CASE w = 1 -> b[1]
                        [] w = 2 -> (b[1] - 192) * 64 + (b[2] - 128)
                        [] w = 3 -> (b[1] - 224) * 4096 + (b[2] - 128) * 64
                                    + (b[3] - 128)
                        [] w = 4 -> (b[1] - 240) * 262144 + (b[2] - 128) * 4096
                                    + (b[3] - 128) * 64 + (b[4] - 128)
                 wellFormed == CASE w = 1 -> TRUE
                                 [] w = 2 -> c >= 128
                                 [] w = 3 -> c >= 2048 /\ ~(c >= 55296 /\ c <= 57343)
                                 [] w = 4 -> c >= 65536 /\ c <= 1114111
                 rest == from_utf8(SubSeq(b, w + 1, Len(b)))
             IN IF wellFormed /\ rest.ok
                THEN [ok |-> TRUE, chars |-> <<c>> \o rest.chars]
                ELSE [ok |-> FALSE, chars |-> <<>>]

\* ffi::CString::new: Err(NulError) iff the bytes hold a zero byte
CString_new(s) ==
    LET b == as_bytes(s) IN
    IF \E i \in 1..Len(b) : b[i] = 0
    THEN [ok |-> FALSE, bytes |-> <<>>]
    ELSE [ok |-> TRUE, bytes |-> b]

\* pointers handed over by the engine
NULL == [null |-> TRUE]
Ptr(x) == [null |-> FALSE, val |-> x]

\* one call of an engine function, as the engine sees it: its name, the
\* argument that tells two calls of it apart (an offset, the index of a
\* record; 0 when there is one call only) and what the engine answered
Call(f, a, r) == [fn |-> f, arg |-> a, res |-> r]

\* the engine functions that take the session handle
HandleFns ==
    {"voikkoSetBooleanOption", "voikkoSetIntegerOption", "voikkoSpellCstr",
     "voikkoSuggestCstr", "voikkoHyphenateCstr", "voikkoInsertHyphensCstr",
     "voikkoNextTokenCstr", "voikkoNextSentenceStartCstr",
     "voikkoNextGrammarErrorCstr", "voikkoAnalyzeWordCstr"}

CallsOf(log, f) == {i \in 1..Len(log) : log[i].fn = f}

\* ------------------------------------------------------------------ state
VARIABLES
    instance,          \* the Voikko value: "none", "owned", "dropped"
    session,           \* the engine session behind Voikko.handle: "none", "live", "destroyed"
    terminateCalls,    \* calls of voikkoTerminate on the handle
    usedAfterDestroy,  \* an engine function was given the handle after voikkoTerminate
    pc,                \* "idle", the function whose body runs, "done", "panicked"
    arg,               \* the arguments of the running function
    offset,            \* the local `offset` of tokens, sentences, get_grammar_errors
    tokenlist,         \* the local `tokenlist` of tokens
    sentlist,          \* the local `sentlist` of sentences
    next_start_type,   \* the local `next_start_type` of sentences
    vect,              \* the local `vect` of get_grammar_errors
    engineErrors,      \* the grammar errors the engine finds in arg.text
    ret,               \* the value the function returned
    elog               \* the engine calls the function made, in order (and the
                       \* copies analyze_word takes of the value buffers)

vars == <<instance, session, terminateCalls, usedAfterDestroy, pc, arg, offset,
          tokenlist, sentlist, next_start_type, vect, engineErrors, ret, elog>>

handleVars == <<instance, session, terminateCalls>>
localVars == <<offset, tokenlist, sentlist, next_start_type, vect, engineErrors>>

NoRet == [op |-> "none"]
NoArgs == [op |-> "none"]

\* Result<T, E>
Ok(v) == [ok |-> TRUE, val |-> v]
Err(e) == [ok |-> FALSE, err |-> e]

\* what running a function body comes to: it returns val, or it panics, after
\* the engine calls `calls`
Returns(v, cs) == [panic |-> FALSE, val |-> v, calls |-> cs]
Panics(cs) == [panic |-> TRUE, val |-> NoRet, calls |-> cs]

UsesHandle(cs) == \E i \in 1..Len(cs) : cs[i].fn \in HandleFns

\* ------------------------------------------------ what the engine may answer
\* C strings of the engine: "a", "b", "ä" and bytes that are no UTF-8
EngineStrs == {<<97>>, <<98>>, <<195, 164>>, <<255>>}
MaxArrayLen == 2
\* a NULL-terminated array of C strings, or NULL
EngineArrays == {NULL} \cup {Ptr(a) : a \in SeqsUpTo(EngineStrs, MaxArrayLen)}
\* c_int return codes of voikkoSpellCstr
SpellCodes == -1..4

\* ------------------------------------------------------------ libvoikko.rs
\* libvoikko::get_string_vec
get_string_vec(ptr, free_memory) ==
    IF ptr.null THEN Returns(<<>>, <<>>)
    ELSE IF \E i \in 1..Len(ptr.val) : ~from_utf8(ptr.val[i]).ok
    THEN Panics(<<>>)
    ELSE Returns([i \in 1..Len(ptr.val) |-> from_utf8(ptr.val[i]).chars],
                 IF free_memory THEN <<Call("voikkoFreeCstrArray", 0, 0)>> ELSE <<>>)

\* libvoikko::spell
libvoikko_spell(word, code) ==
    IF ~CString_new(word).ok THEN Returns(Err("NulError"), <<>>)
    ELSE Returns(Ok(code), <<Call("voikkoSpellCstr", 0, code)>>)

\* libvoikko::suggest
libvoikko_suggest(word, array) ==
    IF ~CString_new(word).ok THEN Returns(Err("NulError"), <<>>)
    ELSE LET call == <<Call("voikkoSuggestCstr", 0, array)>>
             v == get_string_vec(array, TRUE)
         IN IF v.panic THEN Panics(call \o v.calls)
            ELSE Returns(Ok(v.val), call \o v.calls)

\* libvoikko::list_supported_spelling_languages, _hyphenation_languages and
\* _grammar_checking_languages: the same body around the engine function fn
libvoikko_list_supported_languages(fn, path, array) ==
    IF ~CString_new(path).ok THEN Returns(Err("NulError"), <<>>)
    ELSE LET call == <<Call(fn, 0, array)>>
             v == get_string_vec(array, TRUE)
         IN IF v.panic THEN Panics(call \o v.calls)
            ELSE Returns(Ok(v.val), call \o v.calls)

\* a hyphens that takes the engine's NULL for an empty mask
libvoikko_hyphens_empty(word, mask) ==
    IF ~CString_new(word).ok THEN Returns(Err(FALSE), <<>>)
    ELSE LET call == <<Call("voikkoHyphenateCstr", 0, mask)>> IN
        IF mask.null THEN Returns(Ok(<<>>), call \o <<Call("voikkoFreeCstr", 0, 0)>>)
        ELSE IF ~from_utf8(mask.val).ok THEN Panics(call)
        ELSE Returns(Ok(from_utf8(mask.val).chars),
                     call \o <<Call("voikkoFreeCstr", 0, 0)>>)

\* libvoikko::hyphens; mask is the engine's answer, a C string or NULL
libvoikko_hyphens(word, mask) ==
    IF ~CString_new(word).ok THEN Returns(Err(FALSE), <<>>)
    ELSE LET call == <<Call("voikkoHyphenateCstr", 0, mask)>> IN
        IF mask.null THEN Returns(Err(FALSE), call)
        ELSE IF ~from_utf8(mask.val).ok THEN Panics(call)
        ELSE Returns(Ok(from_utf8(mask.val).chars),
                     call \o <<Call("voikkoFreeCstr", 0, 0)>>)

\* libvoikko::insert_hyphens; buf is the engine's answer, a C string or NULL
libvoikko_insert_hyphens(word, hyphen, allow_context_changes, buf) ==
    IF ~CString_new(word).ok \/ ~CString_new(hyphen).ok
    THEN Returns(Err("NulError"), <<>>)
    ELSE LET call == <<Call("voikkoInsertHyphensCstr",
                            IF allow_context_changes THEN 1 ELSE 0, buf)>> IN
        IF buf.null THEN Returns(Err("null pointer from libvoikko"), call)
        ELSE IF ~from_utf8(buf.val).ok THEN Returns(Err("Utf8Error"), call)
        ELSE Returns(Ok(from_utf8(buf.val).chars),
                     call \o <<Call("voikkoFreeCstr", 0, 0)>>)

\* libvoikko::set_bool_option and set_int_option: the match on the engine's answer
set_option(fn, option, res) ==
    Returns(res # 0, <<Call(fn, option, res)>>)

\* an init that asks the engine for a session before it looks at the language
libvoikko_init_late_check(language, path, resp) ==
    LET call == <<Call("voikkoInit",
                       [lang |-> "allocated",
                        path |-> IF path.some THEN "released" ELSE "null"],
                       resp)>> IN
    IF path.some /\ ~CString_new(path.val).ok THEN Returns(Err([kind |-> "NulError"]), <<>>)
    ELSE IF ~CString_new(language).ok THEN Returns(Err([kind |-> "NulError"]), call)
    ELSE IF resp.null
    THEN Returns(Err([kind |-> "engine",
                      message |-> IF from_utf8(resp.error).ok
                                  THEN from_utf8(resp.error).chars ELSE <<>>]),
                 call)
    ELSE Returns(Ok("handle"), call)

\* an init that does not test the session for null
libvoikko_init_unchecked(language, path, resp) ==
    IF path.some /\ ~CString_new(path.val).ok THEN Returns(Err([kind |-> "NulError"]), <<>>)
    ELSE IF ~CString_new(language).ok THEN Returns(Err([kind |-> "NulError"]), <<>>)
    ELSE Returns(Ok("handle"),
                 <<Call("voikkoInit",
                        [lang |-> "allocated",
                         path |-> IF path.some THEN "released" ELSE "null"],
                        resp)>>)

\* libvoikko::init; path is None or Some(string), resp is the engine's answer:
\* a session, or no session and a diagnostic C string.  The CString of the
\* path is dropped at the end of its match arm, before the call.
libvoikko_init(language, path, resp) ==
    IF path.some /\ ~CString_new(path.val).ok THEN Returns(Err([kind |-> "NulError"]), <<>>)
    ELSE IF ~CString_new(language).ok THEN Returns(Err([kind |-> "NulError"]), <<>>)
    ELSE LET call == <<Call("voikkoInit",
                            [lang |-> "allocated",
                             path |-> IF path.some THEN "released" ELSE "null"],
                            resp)>> IN
        IF resp.null
        THEN Returns(Err([kind |-> "engine",
                          message |-> IF from_utf8(resp.error).ok
                                      THEN from_utf8(resp.error).chars ELSE <<>>]),
                     call)
        ELSE Returns(Ok("handle"), call)

\* libvoikko::list_dicts; dicts is the engine's answer, an array of dictionary
\* records (language, script, variant, description) or NULL
libvoikko_list_dicts(path, dicts) ==
    IF ~CString_new(path).ok THEN Returns(Err("NulError"), <<>>)
    ELSE LET call == <<Call("voikko_list_dicts", 0, dicts)>> IN
        IF dicts.null THEN Returns(Ok(<<>>), call)
        ELSE IF \E i \in 1..Len(dicts.val) : \E f \in DOMAIN dicts.val[i] :
                    ~from_utf8(dicts.val[i][f]).ok
        THEN Panics(call)
        ELSE Returns(Ok([i \in 1..Len(dicts.val) |->
                            [f \in DOMAIN dicts.val[i] |-> from_utf8(dicts.val[i][f]).chars]]),
                     call \o <<Call("voikko_free_dicts", 0, 0)>>)

\* HashMap::insert on an Analysis, a set of <<key, value>> with one value a key
insert(analysis, key, value) ==
    {kv \in analysis : kv[1] # key} \cup {<<key, value>>}

\* the for loop of analyze_word over the keys of reading i: the Analysis after
\* the first n keys, and the engine calls made for them; between the call
\* that obtains a value and the call that releases it, String::from copies
\* the value buffer into the Analysis
RECURSIVE analysis_of(_, _, _)
analysis_of(reading, i, n) ==
    IF n = 0 THEN [analysis |-> {}, calls |-> <<>>]
    ELSE LET before == analysis_of(reading, i, n - 1)
             key == from_utf8(reading[n].key).chars
             value == IF from_utf8(reading[n].value).ok
                      THEN from_utf8(reading[n].value).chars ELSE <<>>
         IN [analysis |-> insert(before.analysis, key, value),
             calls |-> before.calls
                       \o <<Call("voikko_mor_analysis_value_cstr", <<i, n>>, 0),
                            Call("String::from", <<i, n>>, value),
                            Call("voikko_free_mor_analysis_value_cstr", <<i, n>>, 0)>>]

\* the while loop of analyze_word over the first n readings; a key that is no
\* UTF-8 panics in get_string_vec
RECURSIVE readings_of(_, _)
readings_of(readings, n) ==
    IF n = 0 THEN Returns(<<>>, <<>>)
    ELSE LET before == readings_of(readings, n - 1)
             reading == readings[n]
             keys == <<Call("voikko_mor_analysis_keys", n, 0)>>
         IN IF before.panic THEN before
            ELSE IF \E k \in 1..Len(reading) : ~from_utf8(reading[k].key).ok
            THEN Panics(before.calls \o keys)
            ELSE LET a == analysis_of(reading, n, Len(reading)) IN
                 Returns(Append(before.val, a.analysis), before.calls \o keys \o a.calls)

\* an analyze_word that reads the first reading only
libvoikko_analyze_word_first(word, list) ==
    IF ~CString_new(word).ok THEN Returns(Err("NulError"), <<>>)
    ELSE LET call == <<Call("voikkoAnalyzeWordCstr", 0, list)>> IN
        IF list.null THEN Returns(Ok(<<>>), call)
        ELSE LET r == readings_of(list.val, IF Len(list.val) > 1 THEN 1 ELSE Len(list.val)) IN
            IF r.panic THEN Panics(call \o r.calls)
            ELSE Returns(Ok(r.val),
                         call \o r.calls \o <<Call("voikko_free_mor_analysis", 0, 0)>>)

\* libvoikko::analyze_word; list is the engine's answer, an array of readings
\* (each a sequence of key and value C strings) or NULL
libvoikko_analyze_word(word, list) ==
    IF ~CString_new(word).ok THEN Returns(Err("NulError"), <<>>)
    ELSE LET call == <<Call("voikkoAnalyzeWordCstr", 0, list)>> IN
        IF list.null THEN Returns(Ok(<<>>), call)
        ELSE LET r == readings_of(list.val, Len(list.val)) IN
            IF r.panic THEN Panics(call \o r.calls)
            ELSE Returns(Ok(r.val),
                         call \o r.calls \o <<Call("voikko_free_mor_analysis", 0, 0)>>)

\* the engine of get_grammar_errors: the first error of the text that starts
\* at or after the offset, as its index in errors, or NULL
voikkoNextGrammarErrorCstr(errors, startpos) ==
    LET after == {i \in 1..Len(errors) : errors[i].start_pos >= startpos} IN
    IF after = {} THEN NULL
    ELSE Ptr(CHOOSE i \in after : \A j \in after : i <= j)

\* ------------------------------------------------------------------ lib.rs
\* a match that takes every undocumented code for a spelling failure
SpellReturn_lenient(code) ==
    CASE code = 1 -> "SpellOk"
      [] code = 3 -> "CharsetConversionFailed"
      [] OTHER -> "SpellFailed"

\* the match of Voikko::spell on the code
SpellReturn(code) ==
    CASE code = 0 -> "SpellFailed"
      [] code = 1 -> "SpellOk"
      [] code = 3 -> "CharsetConversionFailed"
      [] OTHER -> "InternalError"

\* Voikko::spell
spell(word, code) ==
    LET r == libvoikko_spell(word, code) IN
    Returns(IF r.val.ok THEN SpellReturn(r.val.val) ELSE "SpellFailed", r.calls)

\* Result::unwrap_or_else(|_| vec![]) around a libvoikko function
unwrap_or_empty(r) ==
    IF r.panic THEN r
    ELSE Returns(IF r.val.ok THEN r.val.val ELSE <<>>, r.calls)

\* The grapheme cluster break property of a character (UAX #29), for the
\* characters the model draws from: controls, combining marks (Extend), others
GraphemeClass(c) ==
    IF c < 32 \/ (c >= 127 /\ c <= 159) THEN "Control"
    ELSE IF c >= 768 /\ c <= 879 THEN "Extend"
    ELSE "Other"

\* length of the first extended grapheme cluster of a non-empty string: no
\* break before Extend (GB9), but always one after a control (GB4)
RECURSIVE ExtendRun(_, _)
ExtendRun(s, i) ==
    IF i <= Len(s) /\ GraphemeClass(s[i]) = "Extend" THEN 1 + ExtendRun(s, i + 1) ELSE 0

FirstClusterLen(s) ==
    IF GraphemeClass(s[1]) = "Control" THEN 1 ELSE 1 + ExtendRun(s, 2)

\* UnicodeSegmentation::graphemes(true): the extended grapheme clusters, in order
RECURSIVE graphemes(_)
graphemes(s) ==
    IF s = <<>> THEN <<>>
    ELSE LET n == FirstClusterLen(s) IN
        <<SubSeq(s, 1, n)>> \o graphemes(SubSeq(s, n + 1, Len(s)))

\* Iterator::zip: as many pairs as the shorter has
zip(a, b) ==
    [i \in 1..(IF Len(a) < Len(b) THEN Len(a) ELSE Len(b)) |-> <<a[i], b[i]>>]

\* a closure that keeps the character at "=" too
hyphenate_map_keeping(w, h, hyphen) ==
    CASE h = <<45>> -> hyphen \o w
      [] h = <<61>> -> hyphen \o w
      [] OTHER -> w

\* a closure that puts the insertion string after the character
hyphenate_map_after(w, h, hyphen) ==
    CASE h = <<45>> -> w \o hyphen
      [] h = <<61>> -> hyphen
      [] OTHER -> w

\* the closure of Voikko::hyphenate: w is a grapheme of the word, h of the mask
hyphenate_map(w, h, hyphen) ==
    CASE h = <<45>> -> hyphen \o w
      [] h = <<61>> -> hyphen
      [] OTHER -> w

\* Voikko::hyphens
hyphens(word, mask) == libvoikko_hyphens(word, mask)

\* Voikko::hyphenate
hyphenate(word, hyphen, mask) ==
    LET r == hyphens(word, mask) IN
    IF r.panic THEN r
    ELSE IF ~r.val.ok THEN Returns(Err(FALSE), r.calls)
    ELSE LET pairs == zip(graphemes(word), graphemes(r.val.val)) IN
        Returns(Ok(Flatten([i \in 1..Len(pairs) |->
                               hyphenate_map(pairs[i][1], pairs[i][2], hyphen)])),
                r.calls)

\* Voikko::hyphenate_new
hyphenate_new(word, character, allow_context_changes, buf) ==
    libvoikko_insert_hyphens(word, character, allow_context_changes, buf)

\* Voikko::new
new(language, path, resp) == libvoikko_init(language, path, resp)

\* Voikko::analyze
analyze(word, list) == unwrap_or_empty(libvoikko_analyze_word(word, list))

\* voikko::list_dicts
list_dicts(path, dicts) == unwrap_or_empty(libvoikko_list_dicts(path, dicts))

\* Voikko::suggest
suggest(word, array) == unwrap_or_empty(libvoikko_suggest(word, array))

\* voikko::list_supported_spelling_languages and its two siblings
list_supported_languages(fn, path, array) ==
    unwrap_or_empty(libvoikko_list_supported_languages(fn, path, array))

\* a match whose wildcard arm takes the sentinel too
token_type_of_wildcard(raw_token) ==
    CASE raw_token = "TOKEN_PUNCTUATION" -> "Punctuation"
      [] raw_token = "TOKEN_WHITESPACE" -> "Whitespace"
      [] raw_token = "TOKEN_WORD" -> "Word"
      [] OTHER -> "Unknown"

\* the match of Voikko::tokens on the engine's token type
token_type_of(raw_token) ==
    CASE raw_token = "TOKEN_NONE" -> "None"
      [] raw_token = "TOKEN_PUNCTUATION" -> "Punctuation"
      [] raw_token = "TOKEN_WHITESPACE" -> "Whitespace"
      [] raw_token = "TOKEN_WORD" -> "Word"
      [] OTHER -> "Unknown"

\* the match of Voikko::sentences on the engine's sentence type
sentence_type_of(raw_sent) ==
    CASE raw_sent = "SENTENCE_NO_START" -> "NoStart"
      [] raw_sent = "SENTENCE_POSSIBLE" -> "Possible"
      [] raw_sent = "SENTENCE_PROBABLE" -> "Probable"
      [] OTHER -> "None"

\* str::is_char_boundary: the check behind &text[offset..]
is_char_boundary(text, index) ==
    LET b == as_bytes(text) IN
    \/ index = 0
    \/ index = Len(b)
    \/ index < Len(b) /\ ~IsContinuation(b[index + 1])

\* &text[offset..], offset in bytes and on a character boundary
str_from(text, index) ==
    LET b == as_bytes(text) IN from_utf8(SubSeq(b, index + 1, Len(b))).chars

\* Iterator::take and Iterator::skip on chars()
take(chars, n) == SubSeq(chars, 1, IF n < Len(chars) THEN n ELSE Len(chars))
\* a skip that counts bytes where the cursor counts characters
skip_bytes(chars, n) == str_from(chars, IF n < Len(as_bytes(chars)) THEN n ELSE Len(as_bytes(chars)))
skip(chars, n) == SubSeq(chars, n + 1, Len(chars))

\* ------------------------------------------------------------------ inputs
\* characters of words: NUL, "a", "ä" (two bytes), a combining acute accent
WordChars == {0, 97, 228, 769}
Words == SeqsUpTo(WordChars, MaxWordLen)
\* insertion strings: "", "-", and a middle dot followed by NUL
HyphenStrs == {<<>>, <<45>>, <<183, 0>>}
\* hyphenation masks of the engine: NULL, strings of " ", "-", "=", and bytes
\* that are no UTF-8
MaskChars == {32, 45, 61}
Masks == {NULL} \cup {Ptr(as_bytes(m)) : m \in SeqsUpTo(MaskChars, MaxMaskLen)}
              \cup {Ptr(<<255>>)}
\* characters of texts: NUL, "a", the euro sign (three bytes)
TextChars == {0, 97, 8364}
Texts == SeqsUpTo(TextChars, MaxTextLen)
\* what the engine may answer to next token and next sentence start
TokenTypes == {"TOKEN_NONE", "TOKEN_WORD", "TOKEN_PUNCTUATION", "TOKEN_WHITESPACE",
               "TOKEN_UNKNOWN"}
SentenceTypes == {"SENTENCE_NONE", "SENTENCE_NO_START", "SENTENCE_PROBABLE",
                  "SENTENCE_POSSIBLE"}
Lengths == 0..MaxTextLen
\* the loops stop being followed after this many results (one more than a
\* text has characters)
MaxResults == MaxTextLen + 1

\* texts of the grammar checker: "", "a", "aa", ... and one with a NUL
MaxGcTextLen == 3
MaxErrors == 3
GcTexts == {[i \in 1..n |-> 97] : n \in 0..MaxGcTextLen} \cup {<<97, 0>>}
\* description languages: "en", and "e" followed by NUL
DescLangs == {<<101, 110>>, <<101, 0>>}
\* the grammar errors an engine may hold for a text of n characters: inside
\* the text, in ascending order of start position
GrammarErrorRecord(s, l) ==
    [code |-> 8, start_pos |-> s, length |-> l, suggestions |-> Ptr(<<<<98>>>>)]
ErrorsIn(n) == {GrammarErrorRecord(s, l) : s \in 0..n, l \in 0..n}
ErrorLists(n) ==
    {es \in SeqsUpTo(ErrorsIn(n), MaxErrors) :
        /\ \A i \in 1..Len(es) : es[i].start_pos + es[i].length <= n
        /\ \A i \in 1..(Len(es) - 1) : es[i].start_pos < es[i + 1].start_pos}
\* the vector stops being followed after this many errors (a scan that
\* reports an error twice does not end)
MaxVect == MaxErrors + 1

\* morphological analyses of the engine: NULL, or an array of readings, each
\* a sequence of attribute names and values
Readings ==
    {<<>>,
     <<[key |-> <<97>>, value |-> <<98>>]>>,
     <<[key |-> <<97>>, value |-> <<255>>], [key |-> <<98>>, value |-> <<97>>]>>,
     <<[key |-> <<255>>, value |-> <<97>>]>>}
MaxReadings == 2
EngineAnalyses == {NULL} \cup {Ptr(a) : a \in SeqsUpTo(Readings, MaxReadings)}
\* dictionary lists of the engine
DictRecord(l) == [language |-> l, script |-> <<97>>, variant |-> <<97>>, description |-> <<98>>]
EngineDicts ==
    {NULL} \cup {Ptr(d) : d \in SeqsUpTo({DictRecord(<<97>>), DictRecord(<<255>>)}, MaxArrayLen)}
\* answers of voikkoInit: a session, or none and a diagnostic
InitAnswers == {[null |-> FALSE]} \cup {[null |-> TRUE, error |-> e] : e \in EngineStrs}
\* answers of voikkoInsertHyphensCstr
Buffers == {NULL} \cup {Ptr(b) : b \in EngineStrs}
\* option identifiers of the set_opt_* methods and the two integer options
BoolOptions == {0, 1, 3, 4, 6, 7, 8, 10, 11, 12, 13, 14, 15, 16}
IntOptions == {9, 17}

\* language tags ("a", and "a" followed by NUL) and search paths ("", a NUL)
Languages == {<<97>>, <<97, 0>>}
Paths == {<<>>, <<0>>}

\* the functions that borrow a Voikko
MethodOps ==
    {"spell", "suggest", "hyphens", "hyphenate", "hyphenate_new", "tokens",
     "sentences", "analyze", "grammar_errors", "set_bool_option", "set_int_option"}
\* the engine function behind each language list
ListFn(op) ==
    CASE op = "list_supported_spelling_languages" -> "voikkoListSupportedSpellingLanguages"
      [] op = "list_supported_hyphenation_languages" -> "voikkoListSupportedHyphenationLanguages"
      [] op = "list_supported_grammar_checking_languages" ->
            "voikkoListSupportedGrammarCheckingLanguages"
ListOps ==
    {"list_supported_spelling_languages", "list_supported_hyphenation_languages",
     "list_supported_grammar_checking_languages"}

\* arguments of a call, per function
WordArgs(op, W) == {[op |-> op, word |-> w] : w \in W}
HyphenateArgs(W, H) == {[op |-> "hyphenate", word |-> w, hyphen |-> h] : w \in W, h \in H}
HyphenateNewArgs(W, H) ==
    {[op |-> "hyphenate_new", word |-> w, hyphen |-> h, allow_context_changes |-> a] :
        w \in W, h \in H, a \in BOOLEAN}
TextArgs(op, T) == {[op |-> op, text |-> t] : t \in T}
GrammarArgs(T, L) == {[op |-> "grammar_errors", text |-> t, desc_lang |-> l] : t \in T, l \in L}
PathArgs(op, P) == {[op |-> op, path |-> q] : q \in P}
NewArgs(L, P) ==
    {[op |-> "new", language |-> l, path |-> q] :
        l \in L, q \in {[some |-> FALSE]} \cup {[some |-> TRUE, val |-> x] : x \in P}}
OptionArgs ==
    {[op |-> "set_bool_option", option |-> o, value |-> v] : o \in BoolOptions, v \in {0, 1}}
    \cup {[op |-> "set_int_option", option |-> o, value |-> v] : o \in IntOptions, v \in {-1, 2}}

\* ----------------------------------------------------------------- actions
\* a function is called: its locals are fresh.  A method borrows the Voikko,
\* so there is one to borrow.  es: the grammar errors the engine holds for
\* the text, when the function is grammar_errors.
Enter(a, es) ==
    /\ pc \in {"idle", "done"}
    /\ a.op \in MethodOps => instance = "owned"
    /\ pc' = a.op
    /\ arg' = a
    /\ offset' = 0
    /\ tokenlist' = <<>>
    /\ sentlist' = <<>>
    /\ next_start_type' = "NoStart"
    /\ vect' = <<>>
    /\ engineErrors' = es
    /\ ret' = NoRet
    /\ elog' = <<>>
    /\ UNCHANGED <<handleVars, usedAfterDestroy>>

\* the body of a function without a loop ran: it returned or panicked
Finish(r) ==
    /\ pc' = IF r.panic THEN "panicked" ELSE "done"
    /\ ret' = IF r.panic THEN NoRet ELSE [op |-> pc, val |-> r.val]
    /\ elog' = elog \o r.calls
    /\ usedAfterDestroy' = (usedAfterDestroy \/ (session = "destroyed" /\ UsesHandle(r.calls)))
    /\ UNCHANGED <<handleVars, arg, localVars>>

\* Voikko::new
New ==
    /\ instance = "none"
    /\ pc \in {"idle", "done"}
    /\ \E a \in NewArgs(Languages, Paths), resp \in InitAnswers :
        LET r == new(a.language, a.path, resp) IN
        /\ instance' = IF r.val.ok THEN "owned" ELSE "none"
        /\ session' = IF r.val.ok THEN "live" ELSE session
        /\ arg' = a
        /\ ret' = [op |-> "new", val |-> r.val]
        /\ elog' = r.calls
    /\ pc' = "done"
    /\ offset' = 0
    /\ tokenlist' = <<>>
    /\ sentlist' = <<>>
    /\ next_start_type' = "NoStart"
    /\ vect' = <<>>
    /\ engineErrors' = <<>>
    /\ UNCHANGED <<terminateCalls, usedAfterDestroy>>

\* a drop that leaves the session to the engine
terminate_skipped ==
    /\ UNCHANGED <<terminateCalls, session, usedAfterDestroy>>

\* libvoikko::terminate
terminate ==
    /\ terminateCalls' = terminateCalls + 1
    /\ session' = "destroyed"
    /\ usedAfterDestroy' = (usedAfterDestroy \/ session = "destroyed")

\* impl Drop for Voikko: the owner lets go of the value, when no method runs
\* or while a panic unwinds
Drop ==
    /\ instance = "owned"
    /\ pc \in {"idle", "done", "panicked"}
    /\ instance' = "dropped"
    /\ terminate
    /\ UNCHANGED <<pc, arg, localVars, ret, elog>>

Spell ==
    /\ pc = "spell"
    /\ \E code \in SpellCodes : Finish(spell(arg.word, code))

Suggest ==
    /\ pc = "suggest"
    /\ \E array \in EngineArrays : Finish(suggest(arg.word, array))

Hyphens ==
    /\ pc = "hyphens"
    /\ \E mask \in Masks : Finish(hyphens(arg.word, mask))

Hyphenate ==
    /\ pc = "hyphenate"
    /\ \E mask \in Masks : Finish(hyphenate(arg.word, arg.hyphen, mask))

HyphenateNew ==
    /\ pc = "hyphenate_new"
    /\ \E buf \in Buffers :
        Finish(hyphenate_new(arg.word, arg.hyphen, arg.allow_context_changes, buf))

Analyze ==
    /\ pc = "analyze"
    /\ \E list \in EngineAnalyses : Finish(analyze(arg.word, list))

ListDicts ==
    /\ pc = "list_dicts"
    /\ \E dicts \in EngineDicts : Finish(list_dicts(arg.path, dicts))

ListSupportedLanguages ==
    /\ pc \in ListOps
    /\ \E array \in EngineArrays : Finish(list_supported_languages(ListFn(pc), arg.path, array))

\* the set_opt_* methods, set_min_hyphenated_word_length, set_speller_cache_size
SetOption ==
    /\ pc \in {"set_bool_option", "set_int_option"}
    /\ \E res \in {0, 1} :
        Finish(set_option(IF pc = "set_bool_option" THEN "voikkoSetBooleanOption"
                          ELSE "voikkoSetIntegerOption", arg.option, res))

\* a token text that takes the engine's length for a number of bytes: the
\* characters that fit in token_len bytes
token_text_of_bytes(text, off, token_len) ==
    LET rest == str_from(text, off)
        fit == {n \in 0..Len(rest) : Len(as_bytes(take(rest, n))) <= token_len}
    IN take(rest, CHOOSE n \in fit : \A m \in fit : m <= n)

\* `text[offset..].chars().take(token_len).collect()` of Voikko::tokens
token_text_of(text, off, token_len) == take(str_from(text, off), token_len)

\* a cursor that advances by the number of characters of the token
offset_after_chars(off, token_text) == off + Len(token_text)

\* `offset += token_text.as_bytes().len()` of Voikko::tokens
offset_after(off, token_text) == off + Len(as_bytes(token_text))

\* an engine function is given the handle
HandleUsed == usedAfterDestroy' = (usedAfterDestroy \/ session = "destroyed")

\* a panic (the unwrap of CString::new, of to_str, or a slice off a boundary)
Panic(calls) ==
    /\ pc' = "panicked"
    /\ elog' = elog \o calls
    /\ UNCHANGED <<handleVars, usedAfterDestroy, arg, localVars, ret>>

\* one turn of the while loop of Voikko::tokens, libvoikko::next_token in it
TokensIter ==
    /\ pc = "tokens"
    /\ offset < Len(as_bytes(arg.text))
    /\ Len(tokenlist) < MaxResults
    /\ IF ~is_char_boundary(arg.text, offset) \/ ~CString_new(str_from(arg.text, offset)).ok
       THEN Panic(<<>>)
       ELSE \E raw_token \in TokenTypes, token_len \in Lengths :
            LET token_type == token_type_of(raw_token)
                token_text == token_text_of(arg.text, offset, token_len)
            IN /\ elog' = Append(elog, Call("voikkoNextTokenCstr", offset,
                                              <<raw_token, token_len>>))
               /\ HandleUsed
               /\ IF token_type = "None"
                  THEN /\ pc' = "done"
                       /\ ret' = [op |-> "tokens", val |-> tokenlist]
                       /\ UNCHANGED <<tokenlist, offset>>
                  ELSE /\ tokenlist' = Append(tokenlist, [token_text |-> token_text,
                                                          token_type |-> token_type])
                       /\ offset' = offset_after(offset, token_text)
                       /\ UNCHANGED <<pc, ret>>
               /\ UNCHANGED <<handleVars, arg, sentlist, next_start_type, vect,
                              engineErrors>>

\* the while condition of Voikko::tokens fails: tokenlist is returned
TokensReturn ==
    /\ pc = "tokens"
    /\ ~(offset < Len(as_bytes(arg.text)))
    /\ pc' = "done"
    /\ ret' = [op |-> "tokens", val |-> tokenlist]
    /\ UNCHANGED <<handleVars, usedAfterDestroy, arg, localVars, elog>>

\* one turn of the while loop of Voikko::sentences, libvoikko::next_sentence in it
SentencesIter ==
    /\ pc = "sentences"
    /\ offset < Len(arg.text) /\ next_start_type # "None"
    /\ Len(sentlist) < MaxResults
    /\ LET next_text == skip(arg.text, offset) IN
       IF ~CString_new(next_text).ok
       THEN Panic(<<>>)
       ELSE \E raw_sent \in SentenceTypes, sent_len \in Lengths :
            /\ elog' = Append(elog, Call("voikkoNextSentenceStartCstr", offset,
                                           <<raw_sent, sent_len>>))
            /\ HandleUsed
            /\ next_start_type' = sentence_type_of(raw_sent)
            /\ sentlist' = Append(sentlist,
                                  [text |-> take(skip(arg.text, offset), sent_len),
                                   next_start_type |-> sentence_type_of(raw_sent)])
            /\ offset' = offset + sent_len
            /\ UNCHANGED <<handleVars, pc, arg, tokenlist, vect, engineErrors, ret>>

\* the while condition of Voikko::sentences fails: sentlist is returned
SentencesReturn ==
    /\ pc = "sentences"
    /\ ~(offset < Len(arg.text) /\ next_start_type # "None")
    /\ pc' = "done"
    /\ ret' = [op |-> "sentences", val |-> sentlist]
    /\ UNCHANGED <<handleVars, usedAfterDestroy, arg, localVars, elog>>

\* what the engine may answer when asked for a short description
Descriptions == {<<97>>, <<255>>}

\* `offset += start_pos + error_length` of get_grammar_errors
next_offset(off, start_pos, error_length) == off + start_pos + error_length

\* one turn of the loop of libvoikko::get_grammar_errors; on the engine's NULL
\* the loop is left and Voikko::grammar_errors returns the vector, on a
\* NulError of desc_lang it returns the empty vector
GrammarErrorsIter ==
    /\ pc = "grammar_errors"
    /\ Len(vect) < MaxVect
    /\ IF ~CString_new(arg.text).ok
       THEN Panic(<<>>)
       ELSE
        LET e == voikkoNextGrammarErrorCstr(engineErrors, offset)
            next == <<Call("voikkoNextGrammarErrorCstr", offset, e)>>
        IN
        /\ HandleUsed
        /\ UNCHANGED <<handleVars, arg, tokenlist, sentlist, next_start_type, engineErrors>>
        /\ IF e.null
           THEN /\ elog' = elog \o next \o <<Call("voikkoFreeGrammarError", 0, 0)>>
                /\ pc' = "done"
                /\ ret' = [op |-> "grammar_errors", val |-> vect]
                /\ UNCHANGED <<vect, offset>>
           ELSE
            LET err == engineErrors[e.val]
                read == <<Call("voikkoGetGrammarErrorCode", e.val, err.code),
                          Call("voikkoGetGrammarErrorStartPos", e.val, err.start_pos),
                          Call("voikkoGetGrammarErrorLength", e.val, err.length),
                          Call("voikkoGetGrammarErrorSuggestions", e.val, err.suggestions)>>
                suggestions == get_string_vec(err.suggestions, FALSE)
            IN
            IF suggestions.panic
            THEN /\ pc' = "panicked"
                 /\ elog' = elog \o next \o read
                 /\ UNCHANGED <<vect, offset, ret>>
            ELSE IF ~CString_new(arg.desc_lang).ok
            THEN /\ pc' = "done"
                 /\ ret' = [op |-> "grammar_errors", val |-> <<>>]
                 /\ elog' = elog \o next \o read
                 /\ UNCHANGED <<vect, offset>>
            ELSE \E desc \in Descriptions :
                LET describe == <<Call("voikkoGetGrammarErrorShortDescription", e.val, desc)>>
                IN
                IF ~from_utf8(desc).ok
                THEN /\ pc' = "panicked"
                     /\ elog' = elog \o next \o read \o describe
                     /\ UNCHANGED <<vect, offset, ret>>
                ELSE /\ vect' = Append(vect, [code |-> err.code,
                                              start_pos |-> err.start_pos,
                                              length |-> err.length,
                                              suggestions |-> suggestions.val,
                                              description |-> from_utf8(desc).chars])
                     /\ elog' = elog \o next \o read \o describe
                                 \o <<Call("voikkoFreeErrorMessageCstr", e.val, 0),
                                      Call("voikkoFreeGrammarError", e.val, 0)>>
                     /\ offset' = next_offset(offset, err.start_pos, err.length)
                     /\ UNCHANGED <<pc, ret>>

\* ---------------------------------------------------------- specifications
\* The life of one Voikko: Voikko::new, calls in any order and number, drop.
LifeWords == {<<97, 769>>, <<97, 0>>}
LifeTexts == {<<97, 8364>>, <<0>>}
LifeGcTexts == {<<97>>, <<97, 0>>}
LifeArgs ==
    WordArgs("spell", LifeWords) \cup WordArgs("suggest", LifeWords)
    \cup WordArgs("hyphens", LifeWords) \cup WordArgs("analyze", LifeWords)
    \cup HyphenateArgs(LifeWords, {<<45>>}) \cup HyphenateNewArgs(LifeWords, {<<45>>})
    \cup TextArgs("tokens", LifeTexts) \cup TextArgs("sentences", LifeTexts)
    \cup OptionArgs
    \cup PathArgs("list_dicts", Paths)
    \cup UNION {PathArgs(op, Paths) : op \in ListOps}

Init ==
    /\ instance = "none"
    /\ session = "none"
    /\ terminateCalls = 0
    /\ usedAfterDestroy = FALSE
    /\ pc = "idle"
    /\ arg = NoArgs
    /\ offset = 0
    /\ tokenlist = <<>>
    /\ sentlist = <<>>
    /\ next_start_type = "NoStart"
    /\ vect = <<>>
    /\ engineErrors = <<>>
    /\ ret = NoRet
    /\ elog = <<>>

Next ==
    \/ New
    \/ Drop
    \/ \E a \in LifeArgs : Enter(a, <<>>)
    \/ \E a \in GrammarArgs(LifeGcTexts, DescLangs) :
            \E es \in ErrorLists(Len(a.text)) : Enter(a, es)
    \/ Spell
    \/ Suggest
    \/ Hyphens
    \/ Hyphenate
    \/ HyphenateNew
    \/ Analyze
    \/ ListDicts
    \/ ListSupportedLanguages
    \/ SetOption
    \/ TokensIter
    \/ TokensReturn
    \/ SentencesIter
    \/ SentencesReturn
    \/ GrammarErrorsIter

Spec == Init /\ [][Next]_vars

\* A Voikko at the entry of one call with arguments of the set A, the engine
\* holding one of the error lists of E(text) when it is grammar_errors.
Entered(A, E(_)) ==
    /\ instance = "owned"
    /\ session = "live"
    /\ terminateCalls = 0
    /\ usedAfterDestroy = FALSE
    /\ arg \in A
    /\ pc = arg.op
    /\ offset = 0
    /\ tokenlist = <<>>
    /\ sentlist = <<>>
    /\ next_start_type = "NoStart"
    /\ vect = <<>>
    /\ engineErrors \in E(arg)
    /\ ret = NoRet
    /\ elog = <<>>

NoErrors(a) == {<<>>}
ErrorsOf(a) == ErrorLists(Len(a.text))

\* tokens on every text
InitTokens == Entered(TextArgs("tokens", Texts), NoErrors)
NextTokens == TokensIter \/ TokensReturn
SpecTokens == InitTokens /\ [][NextTokens]_vars

\* grammar_errors on every text and every error list of the engine
InitGrammar == Entered(GrammarArgs(GcTexts, DescLangs), ErrorsOf)
NextGrammar == GrammarErrorsIter
SpecGrammar == InitGrammar /\ [][NextGrammar]_vars

\* sentences on every text
InitSentences == Entered(TextArgs("sentences", Texts), NoErrors)
NextSentences == SentencesIter \/ SentencesReturn
SpecSentences == InitSentences /\ [][NextSentences]_vars

\* hyphens and hyphenate on every word, insertion string and mask
InitHyphenate ==
    Entered(WordArgs("hyphens", Words) \cup HyphenateArgs(Words, HyphenStrs), NoErrors)
NextHyphenate == Hyphens \/ Hyphenate
SpecHyphenate == InitHyphenate /\ [][NextHyphenate]_vars

\* ------------------------------------------------------------------ claims
HasNul(str) == \E i \in 1..Len(str) : str[i] = 0

\* C1: the session of a Voikko is destroyed exactly once, when the Voikko is
\* dropped and not before, and no engine function is given the handle after
\* that, whatever was called on the Voikko before.
C1_DestroyedOnceAtDrop ==
    /\ terminateCalls = (IF instance = "dropped" THEN 1 ELSE 0)
    /\ instance = "dropped" <=> session = "destroyed"
    /\ instance = "owned" => session = "live"
    /\ ~usedAfterDestroy

\* a Voikko dropped after a grammar_errors call that reached the engine
C1_Witness ==
    /\ instance = "dropped"
    /\ terminateCalls = 1
    /\ pc = "done"
    /\ arg.op = "grammar_errors"
    /\ elog # <<>>

\* the token texts of a token list, concatenated in order
TokenTexts(tokens) == Flatten([i \in 1..Len(tokens) |-> tokens[i].token_text])

\* the engine answered TOKEN_NONE to the last call of the log
EndedBySentinel == elog # <<>> /\ elog[Len(elog)].res[1] = "TOKEN_NONE"

\* C2 as stated: the token texts tokens(text) returned, concatenated in
\* order, are exactly text, whatever the engine answered.
C2_ConcatIsText ==
    (pc = "done" /\ arg.op = "tokens") => TokenTexts(ret.val) = arg.text

\* C2 amended: the token texts, concatenated in order, are exactly the part
\* of text before the cursor (no gap, no overlap), and what tokens(text)
\* returns is all of text unless the engine answered the none sentinel.
C2_ConcatIsConsumedPrefix ==
    arg.op = "tokens" =>
        /\ as_bytes(TokenTexts(tokenlist)) = SubSeq(as_bytes(arg.text), 1, offset)
        /\ pc = "done" => /\ ret.val = tokenlist
                          /\ ~EndedBySentinel => TokenTexts(ret.val) = arg.text

\* tokens returned two tokens or more that make up a text with a
\* three-byte character, the engine never answering the sentinel
C2_Witness ==
    /\ pc = "done"
    /\ arg.op = "tokens"
    /\ Len(ret.val) >= 2
    /\ ~EndedBySentinel
    /\ \E i \in 1..Len(arg.text) : arg.text[i] = 8364
    /\ TokenTexts(ret.val) = arg.text

\* the calls of voikkoNextGrammarErrorCstr in the log, in order
NextErrorCalls == SelectSeq(elog, LAMBDA c : c.fn = "voikkoNextGrammarErrorCstr")

\* the engine holds errors of positive length that do not overlap
WellBehavedErrors ==
    /\ \A i \in 1..Len(engineErrors) : engineErrors[i].length > 0
    /\ \A i \in 1..(Len(engineErrors) - 1) :
            engineErrors[i].start_pos + engineErrors[i].length <= engineErrors[i + 1].start_pos

\* start position and length of each error of a sequence
Spans(errors) == [i \in 1..Len(errors) |-> <<errors[i].start_pos, errors[i].length>>]

\* C3: in get_grammar_errors the offset given to an engine call that follows
\* a non-null error record is startPos + length of that record, at every turn
\* of the loop.
C3_OffsetIsEndOfLastError ==
    (arg.op = "grammar_errors" /\ WellBehavedErrors) =>
        \A i \in 2..Len(NextErrorCalls) :
            LET last == engineErrors[NextErrorCalls[i - 1].res.val] IN
            NextErrorCalls[i].arg = last.start_pos + last.length

\* C4: grammar_errors returns every grammar error the engine holds for the
\* text, each once and in ascending start position.
C4_ReturnsEveryError ==
    (pc = "done" /\ arg.op = "grammar_errors" /\ ~HasNul(arg.desc_lang)
        /\ WellBehavedErrors)
    => Spans(ret.val) = Spans(engineErrors)

\* C5: the offsets given to the engine never decrease and grammar_errors is
\* through after as many engine calls as the text has errors, plus one.
C5_OneCallPerErrorPlusOne ==
    (arg.op = "grammar_errors" /\ ~HasNul(arg.desc_lang) /\ WellBehavedErrors)
    => /\ \A i \in 2..Len(NextErrorCalls) :
            NextErrorCalls[i - 1].arg <= NextErrorCalls[i].arg
       /\ pc = "done" => Len(NextErrorCalls) = Len(engineErrors) + 1

\* hyphenate got from the engine a mask of " ", "-", "=" that has as many
\* symbols as the word has grapheme clusters
MaskFitsWord ==
    /\ arg.op = "hyphenate"
    /\ pc = "done"
    /\ elog # <<>>
    /\ ~elog[1].res.null
    /\ from_utf8(elog[1].res.val).ok
    /\ Len(from_utf8(elog[1].res.val).chars) = Len(graphemes(arg.word))

\* the mask the engine gave, a sequence of the characters 32, 45, 61
GivenMask == from_utf8(elog[1].res.val).chars

\* C6: with a mask as long as the word, hyphenate returns, grapheme by
\* grapheme, the grapheme at a space, the insertion string and the grapheme at
\* "-", the insertion string alone at "=".
C6_HyphenateFollowsMask ==
    MaskFitsWord =>
        LET g == graphemes(arg.word)
            m == GivenMask
        IN /\ ret.val.ok
           /\ ret.val.val =
                Flatten([i \in 1..Len(g) |->
                    IF m[i] = 32 THEN g[i]
                    ELSE IF m[i] = 45 THEN arg.hyphen \o g[i]
                    ELSE arg.hyphen])

\* a word with a two-character grapheme, hyphenated with "-" under a mask
\* that has both kinds of break point
C6_Witness ==
    /\ MaskFitsWord
    /\ Len(graphemes(arg.word)) < Len(arg.word)
    /\ arg.hyphen = <<45>>
    /\ \E i, j \in 1..Len(GivenMask) : GivenMask[i] = 45 /\ GivenMask[j] = 61
    /\ ret.val.ok

\* out without the Len(h) characters that stand at each break point of the
\* mask m, from grapheme i of the word on; g are the graphemes of the word
RECURSIVE RemoveInserted(_, _, _, _, _)
RemoveInserted(out, g, m, h, i) ==
    IF i > Len(g) THEN out
    ELSE LET broken == m[i] \in {45, 61}
             kept == IF m[i] = 61 THEN 0 ELSE Len(g[i])
             from == IF broken THEN Len(h) ELSE 0
         IN SubSeq(out, from + 1, from + kept)
            \o RemoveInserted(SubSeq(out, from + kept + 1, Len(out)), g, m, h, i + 1)

\* C7 as stated: the insertion strings removed from hyphenate(w, h) at the
\* break points of the mask, w is back.
C7_RoundTrip ==
    MaskFitsWord =>
        RemoveInserted(ret.val.val, graphemes(arg.word), GivenMask, arg.hyphen, 1) = arg.word

\* C7 amended: what is back is w without the graphemes that stand at "=",
\* which hyphenate replaced; it is w when the mask has no "=".
C7_RoundTripButReplaced ==
    MaskFitsWord =>
        LET g == graphemes(arg.word)
            back == RemoveInserted(ret.val.val, g, GivenMask, arg.hyphen, 1)
        IN /\ back = Flatten([i \in 1..Len(g) |-> IF GivenMask[i] = 61 THEN <<>> ELSE g[i]])
           /\ (\A i \in 1..Len(g) : GivenMask[i] # 61) => back = arg.word

\* a round trip through a mask with "-" and no "=", the insertion string
\* not empty
C7_Witness ==
    /\ MaskFitsWord
    /\ arg.hyphen # <<>>
    /\ \E i \in 1..Len(GivenMask) : GivenMask[i] = 45
    /\ \A i \in 1..Len(GivenMask) : GivenMask[i] # 61
    /\ RemoveInserted(ret.val.val, graphemes(arg.word), GivenMask, arg.hyphen, 1) = arg.word

\* the engine answered NULL to the request for a mask
NullMask ==
    /\ arg.op \in {"hyphens", "hyphenate"}
    /\ elog # <<>>
    /\ elog[1].fn = "voikkoHyphenateCstr"
    /\ elog[1].res.null

\* C8: on a NULL mask hyphens and hyphenate return an error, never Ok, and
\* nothing is handed to voikkoFreeCstr.
C8_NullMaskIsError ==
    NullMask =>
        /\ pc = "done"
        /\ ~ret.val.ok
        /\ CallsOf(elog, "voikkoFreeCstr") = {}

\* hyphenate returned on a NULL mask
C8_Witness ==
    /\ NullMask
    /\ arg.op = "hyphenate"
    /\ pc = "done"
    /\ ret.val = Err(FALSE)

\* C9: spell returns SpellFailed iff the engine's code is 0, SpellOk iff it is
\* 1, CharsetConversionFailed iff it is 3, InternalError for every other code.
C9_SpellClassifiesCode ==
    (pc = "done" /\ arg.op = "spell" /\ elog # <<>>) =>
        LET c == elog[1].res IN
        /\ ret.val = "SpellFailed" <=> c = 0
        /\ ret.val = "SpellOk" <=> c = 1
        /\ ret.val = "CharsetConversionFailed" <=> c = 3
        /\ ret.val = "InternalError" <=> c \notin {0, 1, 3}

\* spell returned InternalError on a negative code
C9_Witness ==
    /\ pc = "done"
    /\ arg.op = "spell"
    /\ elog # <<>>
    /\ elog[1].res < 0
    /\ ret.val = "InternalError"

\* the string a call hands to the engine holds a NUL
NulInput ==
    \/ arg.op \in {"spell", "suggest", "analyze"} /\ HasNul(arg.word)
    \/ arg.op \in ListOps \cup {"list_dicts"} /\ HasNul(arg.path)

\* C10: spell, suggest, analyze and the list functions reject a string with a
\* NUL before any engine call, with a value none of the engine's answers gives:
\* not a SpellReturn of a code, not the empty vector of an empty answer.
C10_NulIsToldApart ==
    (pc = "done" /\ NulInput) =>
        /\ elog = <<>>
        /\ IF arg.op = "spell"
           THEN ret.val \notin {SpellReturn(c) : c \in SpellCodes}
           ELSE ret.val # <<>>

\* a function was called and is through: it returned or it panicked
Through == pc \in {"done", "panicked"}

\* C11: tokens, sentences and grammar_errors, called with a text that holds a
\* NUL, return a value to the caller (no panic) and make no engine call.
C11_NulTextReturns ==
    (arg.op \in {"tokens", "sentences", "grammar_errors"} /\ HasNul(arg.text))
    => /\ pc # "panicked"
       /\ elog = <<>>

\* the calls of voikkoFreeCstrArray a function made
ArrayFrees == CallsOf(elog, "voikkoFreeCstrArray")

\* C12: the three language lists never call voikkoFreeCstrArray on the array
\* of the engine, and a suggest that returns has called it once for an array
\* that is not NULL (and not at all for NULL).
C12_ViewsKeptSuggestionsFreed ==
    /\ (arg.op \in ListOps /\ Through) => ArrayFrees = {}
    /\ (arg.op = "suggest" /\ pc = "done" /\ elog # <<>>)
        => Cardinality(ArrayFrees) = (IF elog[1].res.null THEN 0 ELSE 1)

\* the attribute value analyze keeps for a C string of the engine: its text,
\* or the empty string when it is no UTF-8
ValueKept(cstr) == IF from_utf8(cstr).ok THEN from_utf8(cstr).chars ELSE <<>>

\* the Analysis of a reading record: for every attribute name the value the
\* engine gave for it (the last one, should a name come twice)
AnalysisOfReading(reading) ==
    {<<from_utf8(reading[n].key).chars, ValueKept(reading[n].value)>> :
        n \in {k \in 1..Len(reading) :
                \A m \in (k + 1)..Len(reading) : reading[m].key # reading[k].key}}

\* C13: what analyze returns has one Analysis for each reading record of the
\* engine's array, in the engine's order; for NULL and for an array that
\* starts with the terminator it is the empty sequence.
C13_OneAnalysisPerReading ==
    (pc = "done" /\ arg.op = "analyze" /\ elog # <<>>) =>
        LET list == elog[1].res IN
        IF list.null THEN ret.val = <<>>
        ELSE /\ Len(ret.val) = Len(list.val)
             /\ \A i \in 1..Len(list.val) : ret.val[i] = AnalysisOfReading(list.val[i])

\* analyze returned two analyses that differ, the first of a reading with
\* attributes
C13_Witness ==
    /\ pc = "done"
    /\ arg.op = "analyze"
    /\ elog # <<>>
    /\ Len(ret.val) = 2
    /\ ret.val[1] # {}
    /\ ret.val[1] # ret.val[2]

\* analyze got an array from the engine whose first entry is the terminator
C13_WitnessEmptyArray ==
    /\ pc = "done"
    /\ arg.op = "analyze"
    /\ elog # <<>>
    /\ ~elog[1].res.null
    /\ elog[1].res.val = <<>>
    /\ ret.val = <<>>

\* the classification of lib.rs for each sentence type of the engine
SentenceClass ==
    [SENTENCE_NONE |-> "None", SENTENCE_NO_START |-> "NoStart",
     SENTENCE_POSSIBLE |-> "Possible", SENTENCE_PROBABLE |-> "Probable"]

\* the characters the engine counted in the first k steps of a log
RECURSIVE CharsCounted(_, _)
CharsCounted(log, k) == IF k = 0 THEN 0 ELSE CharsCounted(log, k - 1) + log[k].res[2]

\* the n characters of text from character offset cursor on, as many of them
\* as text has
Slice(text, cursor, n) ==
    LET left == Len(text) - cursor
        m == IF n < left THEN n ELSE left
    IN [i \in 1..m |-> text[cursor + i]]

\* C14: the k-th Sentence of sentences(text) has as text the len_k characters
\* of text from character offset cursor_k on (those text has, should the
\* engine count more) and as type the classification the engine returned at
\* step k, the step where that is None included: its slice is the last
\* Sentence, of type None.
C14_SentenceIsSliceAndClass ==
    arg.op = "sentences" =>
        /\ Len(sentlist) = Len(elog)
        /\ \A k \in 1..Len(sentlist) :
            LET cursor == CharsCounted(elog, k - 1) IN
            /\ elog[k].arg = cursor
            /\ sentlist[k].text = Slice(arg.text, cursor, elog[k].res[2])
            /\ sentlist[k].next_start_type = SentenceClass[elog[k].res[1]]
            /\ elog[k].res[1] = "SENTENCE_NONE" => k = Len(sentlist)
        /\ pc = "done" => ret.val = sentlist

\* sentences returned two sentences of a text with a three-byte character,
\* the second the slice of the step where the engine returned None
C14_Witness ==
    /\ pc = "done"
    /\ arg.op = "sentences"
    /\ Len(ret.val) = 2
    /\ arg.text[1] = 8364
    /\ ret.val[1].text = <<8364>>
    /\ ret.val[2].text # <<>>
    /\ ret.val[2].next_start_type = "None"
    /\ elog[2].res[1] = "SENTENCE_NONE"

\* the language of a call of Voikko::new, or its path, holds a NUL
NulInNewArgs == HasNul(arg.language) \/ (arg.path.some /\ HasNul(arg.path.val))

\* C15: Voikko::new with a NUL in language, or in path when there is one,
\* returns an InitError, voikkoInit is not called, and there is no handle
\* and no session to terminate.
C15_NewValidatesFirst ==
    (arg.op = "new" /\ NulInNewArgs) =>
        /\ ~ret.val.ok
        /\ elog = <<>>
        /\ instance = "none"
        /\ session = "none"
        /\ terminateCalls = 0

\* Voikko::new returned an error for a language with a NUL and no path
C15_Witness ==
    /\ arg.op = "new"
    /\ pc = "done"
    /\ HasNul(arg.language)
    /\ ~arg.path.some
    /\ ret.op = "new"
    /\ ~ret.val.ok

\* Voikko::new called voikkoInit, and the engine returned no session
NullSession == arg.op = "new" /\ elog # <<>> /\ elog[1].res.null
\* Voikko::new called voikkoInit, and the engine returned a session
LiveSession == arg.op = "new" /\ elog # <<>> /\ ~elog[1].res.null

\* a Voikko owns the handle: it is there, or was until its drop
OwnsHandle ==
    /\ ret.val = Ok("handle")
    /\ instance = "owned" \/ (instance = "dropped" /\ terminateCalls = 1)

\* C16 as stated: on a null session Voikko::new returns an InitError whose
\* message is the diagnostic of the engine, no Voikko is made and
\* voikkoTerminate is not called; otherwise it returns a Voikko that owns the
\* handle.
C16_NullSessionGivesDiagnostic ==
    /\ NullSession => /\ ~ret.val.ok
                      /\ as_bytes(ret.val.err.message) = elog[1].res.error
                      /\ instance = "none"
                      /\ terminateCalls = 0
    /\ LiveSession => OwnsHandle

\* C16 amended: the message is the diagnostic of the engine when that is
\* UTF-8, and the empty string when it is not.
C16_NullSessionGivesUtf8Diagnostic ==
    /\ NullSession => /\ ~ret.val.ok
                      /\ IF from_utf8(elog[1].res.error).ok
                         THEN as_bytes(ret.val.err.message) = elog[1].res.error
                         ELSE ret.val.err.message = <<>>
                      /\ instance = "none"
                      /\ terminateCalls = 0
    /\ LiveSession => OwnsHandle

\* Voikko::new got no session and a diagnostic with a two-byte character
C16_Witness ==
    /\ NullSession
    /\ pc = "done"
    /\ elog[1].res.error = <<195, 164>>
    /\ ret.val.err.message = <<228>>
    /\ instance = "none"

\* the steps of a log at which the engine returned a token, not the sentinel
TokenSteps == {k \in 1..Len(elog) : elog[k].res[1] # "TOKEN_NONE"}

\* C17: no Token of tokens(text) has the type None: when the engine returns
\* the sentinel the loop is left, nothing is appended for that answer and no
\* engine call follows it.
C17_SentinelEndsTokens ==
    arg.op = "tokens" =>
        /\ \A i \in 1..Len(tokenlist) : tokenlist[i].token_type # "None"
        /\ \A k \in 1..Len(elog) :
                elog[k].res[1] = "TOKEN_NONE" => (k = Len(elog) /\ pc = "done")
        /\ Len(tokenlist) = Cardinality(TokenSteps)
        /\ pc = "done" => ret.val = tokenlist

\* tokens returned one token: the engine answered the sentinel to the second
\* call, with text left
C17_Witness ==
    /\ pc = "done"
    /\ arg.op = "tokens"
    /\ Len(elog) = 2
    /\ EndedBySentinel
    /\ Len(ret.val) = 1
    /\ offset < Len(as_bytes(arg.text))

\* the cursor of tokens after k steps, counted in characters: each step takes
\* the characters the engine counted, or those that are left
RECURSIVE CharCursor(_, _, _)
CharCursor(log, text, k) ==
    IF k = 0 THEN 0
    ELSE LET c == CharCursor(log, text, k - 1)
             left == Len(text) - c
         IN c + (IF log[k].res[2] < left THEN log[k].res[2] ELSE left)

\* the byte offset of the character offset c of a text
ByteOffset(text, c) == Len(as_bytes(SubSeq(text, 1, c)))

\* C18: tokens takes the length of the engine for a count of characters: the
\* text of each token is the next min(len, remaining) characters from the
\* cursor, the cursor advances by the UTF-8 widths of those characters, and
\* at every turn it is a byte offset within text, on a character boundary.
C18_LengthCountsCharacters ==
    arg.op = "tokens" =>
        /\ \A k \in 1..Len(tokenlist) :
            LET c == CharCursor(elog, arg.text, k - 1) IN
            /\ elog[k].arg = ByteOffset(arg.text, c)
            /\ tokenlist[k].token_text = Slice(arg.text, c, elog[k].res[2])
        /\ offset = ByteOffset(arg.text, CharCursor(elog, arg.text, Len(tokenlist)))
        /\ offset <= Len(as_bytes(arg.text))
        /\ \E c \in 0..Len(arg.text) : offset = ByteOffset(arg.text, c)

\* tokens took a three-byte character for the first token, of length 1, and
\* asked the engine again at byte offset 3
C18_Witness ==
    /\ arg.op = "tokens"
    /\ arg.text = <<8364, 97>>
    /\ Len(tokenlist) = 2
    /\ tokenlist[1].token_text = <<8364>>
    /\ elog[2].arg = 3
    /\ offset = 4

\* C19: tokens and sentences come to an end, after finitely many engine
\* calls, for every text and every sequence of engine answers, an answer of
\* length 0 that is not the sentinel included: every turn of their loops that
\* does not leave the loop moves the cursor forward.  (A turn that leaves the
\* cursor where it is gives the engine the same text again.)
C19_EveryTurnAdvances ==
    [][(pc \in {"tokens", "sentences"} /\ pc' = pc) => offset' > offset]_vars

\* step j of sentences(text) is one at which the claim has an engine call:
\* the cursor is before the end of text and the classification of the step
\* before (NoStart before the first) is not None
CallDue(j) ==
    /\ CharsCounted(elog, j - 1) < Len(arg.text)
    /\ j = 1 \/ elog[j - 1].res[1] # "SENTENCE_NONE"

\* sentences called the engine at the steps where a call is due, and is
\* through when none is
CallsWhenDue ==
    /\ \A j \in 1..Len(elog) : CallDue(j)
    /\ Through => ~CallDue(Len(elog) + 1)
    /\ (pc = "done" /\ arg.text = <<>>) => (elog = <<>> /\ ret.val = <<>>)

\* C20: sentences(text) calls the engine at a step iff the cursor is smaller
\* than the number of characters of text and the classification of the step
\* before is not None (NoStart before the first step): no call and an empty
\* result for the empty text, no call after None.
C20_CallsIffTextLeftAndNotNone ==
    arg.op = "sentences" => CallsWhenDue

\* the same for the texts that reach the engine, those without a NUL
CallsWhenDueWithoutNul ==
    (arg.op = "sentences" /\ ~HasNul(arg.text)) => CallsWhenDue

\* the calls of the engine function fn with the argument a
CallsWith(fn, a) == {i \in 1..Len(elog) : elog[i].fn = fn /\ elog[i].arg = a}

\* the calls of voikkoNextGrammarErrorCstr that returned the error record e
RecordsGot(e) ==
    {i \in 1..Len(elog) : /\ elog[i].fn = "voikkoNextGrammarErrorCstr"
                          /\ ~elog[i].res.null
                          /\ elog[i].res.val = e}

\* C21: when grammar_errors returns, on whatever path (the error return for
\* a desc_lang with a NUL included), every error record the engine returned
\* and every description obtained for it has been released exactly once.
C21_ReleasedOnEveryReturn ==
    (arg.op = "grammar_errors" /\ pc = "done") =>
        \A e \in 1..Len(engineErrors) :
            /\ Cardinality(CallsWith("voikkoFreeGrammarError", e))
                = Cardinality(RecordsGot(e))
            /\ Cardinality(CallsWith("voikkoFreeErrorMessageCstr", e))
                = Cardinality(CallsWith("voikkoGetGrammarErrorShortDescription", e))

\* C22: grammar_errors never calls the engine again with an offset that is
\* not greater than the offset of the call before: an engine result that
\* would not advance the offset (an error of length zero at the offset) ends
\* the scan.
C22_OffsetsStrictlyIncrease ==
    arg.op = "grammar_errors" =>
        \A i \in 2..Len(NextErrorCalls) :
            NextErrorCalls[i - 1].arg < NextErrorCalls[i].arg

\* the release functions of the engine
ReleaseFns ==
    {"voikkoFreeCstr", "voikkoFreeCstrArray", "voikkoFreeErrorMessageCstr",
     "voikkoFreeGrammarError", "voikko_free_dicts", "voikko_free_mor_analysis",
     "voikko_free_mor_analysis_value_cstr"}

\* the releases of the value buffer obtained by call i
ReleasesOf(i) == CallsWith("voikko_free_mor_analysis_value_cstr", elog[i].arg)
\* the copies String::from took of the value buffer obtained by call i
CopiesOf(i) == CallsWith("String::from", elog[i].arg)

\* C23: in analyze every attribute value buffer is released exactly once, and
\* only after its content was copied into the Analysis; the attribute names
\* and their array are never released; and the array of readings is released
\* exactly once, after the last reading, whenever it is not NULL (never when
\* it is NULL), however analyze is left.
C23_AnalyzeReleases ==
    (arg.op = "analyze" /\ elog # <<>>) =>
        /\ \A i \in CallsOf(elog, "voikko_mor_analysis_value_cstr") :
            /\ Cardinality(ReleasesOf(i)) = 1
            /\ Cardinality(CopiesOf(i)) = 1
            /\ \A k \in CopiesOf(i) : \A j \in ReleasesOf(i) : i < k /\ k < j
        /\ \A i \in 1..Len(elog) :
            elog[i].fn \in ReleaseFns =>
                elog[i].fn \in {"voikko_free_mor_analysis_value_cstr",
                                "voikko_free_mor_analysis"}
        /\ \A i \in CallsOf(elog, "voikko_free_mor_analysis") :
            i = Len(elog) /\ ~elog[1].res.null
        /\ Through =>
            Cardinality(CallsOf(elog, "voikko_free_mor_analysis"))
                = (IF elog[1].res.null THEN 0 ELSE 1)

\* the part of C23 about the value buffers and the attribute names, and the
\* release of the array of readings by a call of analyze that returns
AnalyzeReleasesWhenItReturns ==
    (arg.op = "analyze" /\ elog # <<>>) =>
        /\ \A i \in CallsOf(elog, "voikko_mor_analysis_value_cstr") :
            /\ Cardinality(ReleasesOf(i)) = 1
            /\ Cardinality(CopiesOf(i)) = 1
            /\ \A k \in CopiesOf(i) : \A j \in ReleasesOf(i) : i < k /\ k < j
        /\ \A i \in 1..Len(elog) :
            elog[i].fn \in ReleaseFns =>
                elog[i].fn \in {"voikko_free_mor_analysis_value_cstr",
                                "voikko_free_mor_analysis"}
        /\ \A i \in CallsOf(elog, "voikko_free_mor_analysis") :
            i = Len(elog) /\ ~elog[1].res.null
        /\ pc = "done" =>
            Cardinality(CallsOf(elog, "voikko_free_mor_analysis"))
                = (IF elog[1].res.null THEN 0 ELSE 1)

\* C24: hyphens and hyphenate_new release every string buffer the engine
\* returned (not NULL) exactly once before they are through, on the success
\* path and on every error path, a buffer that is no UTF-8 included.
C24_BufferReleasedOnEveryPath ==
    (arg.op \in {"hyphens", "hyphenate_new"} /\ Through /\ elog # <<>>) =>
        Cardinality(CallsOf(elog, "voikkoFreeCstr"))
            = (IF elog[1].res.null THEN 0 ELSE 1)

\* C25: when init calls voikkoInit, the buffer of the language tag and, when
\* a path is given, the buffer of the path are still allocated.
C25_BuffersLiveAtInit ==
    (arg.op = "new" /\ elog # <<>>) =>
        /\ elog[1].arg.lang = "allocated"
        /\ elog[1].arg.path \in {"allocated", "null"}

====
